---- MODULE Spec2Model ----
(***************************************************************************)
(* Model of firebase_admin/project_config_mgt.py: the ProjectConfig        *)
(* snapshot class and the _ProjectConfigManagementService with its two     *)
(* operations get_project_config and update_project_config.                *)
(*                                                                         *)
(* Python values are records [cls, val]: cls is the class of the object    *)
(* and val the JSON value it carries.  JSON values are records             *)
(* [t, s, items]: t the type tag, s the scalar text, items the ordered     *)
(* <<key, value>> pairs of a dict (insertion order, as Python dicts keep). *)
(***************************************************************************)
EXTENDS Integers, Sequences, FiniteSets, TLC

\* ---------------------------------------------------------------- bounds
MaxCalls == 2
MaxReads == 2

\* ----------------------------------------------------------- JSON values
JNull == [t |-> "null", s |-> "", items |-> << >>]
JDict(items) == [t |-> "dict", s |-> "", items |-> items]
JScalar(t, s) == [t |-> t, s |-> s, items |-> << >>]
JEmptyDict == JDict(<< >>)
JEmptyList == [t |-> "list", s |-> "", items |-> << >>]
JInt0 == JScalar("int", "0")
JInt7 == JScalar("int", "7")
JFalse == JScalar("bool", "False")
JTrue == JScalar("bool", "True")
JEmptyStr == JScalar("str", "")
JEnabled == JScalar("str", "ENABLED")

\* Python truth value of a decoded JSON value (`if data:`, `not payload`).
Truthy(j) ==
    CASE j.t = "null" -> FALSE
      [] j.t = "dict" -> j.items # << >>
      [] j.t = "list" -> j.items # << >>
      [] j.t = "int"  -> j.s # "0"
      [] j.t = "bool" -> j.s = "True"
      [] j.t = "str"  -> j.s # ""
      [] OTHER        -> TRUE

\* isinstance(data, dict)
IsDict(j) == j.t = "dict"

HasKey(d, k) == \E i \in 1..Len(d.items) : d.items[i][1] = k

\* dict.get(k): the value, or None when the key is missing
DictGet(d, k) ==
    IF HasKey(d, k)
    THEN d.items[CHOOSE i \in 1..Len(d.items) : d.items[i][1] = k][2]
    ELSE JNull

\* d[k] = v: replaces in place, or appends at the end (insertion order)
DictSet(d, k, v) ==
    IF HasKey(d, k)
    THEN JDict([i \in 1..Len(d.items) |->
                  IF d.items[i][1] = k THEN <<k, v>> ELSE d.items[i]])
    ELSE JDict(Append(d.items, <<k, v>>))

\* the keys of a dict, in iteration order
DictKeys(d) == [i \in 1..Len(d.items) |-> d.items[i][1]]

\* ','.join(keys)
RECURSIVE Join(_)
Join(keys) ==
    IF keys = << >> THEN ""
    ELSE IF Len(keys) = 1 THEN keys[1]
    ELSE keys[1] \o "," \o Join(Tail(keys))

\* --------------------------------------------------------- Python values
Py(cls, val) == [cls |-> cls, val |-> val]
None == Py("NoneType", JNull)

\* wire fragments the config value objects serialise to
JMfaNested == JDict(<< <<"providerConfigs", JDict(<< <<"state", JEnabled>> >>)>> >>)
JEpcFlat == JDict(<< <<"enableImprovedEmailPrivacy", JTrue>> >>)
MfaFragments == {JEmptyDict, JMfaNested}
EpcFragments == {JEmptyDict, JEpcFlat}

MultiFactorConfigs == {Py("MultiFactorConfig", f) : f \in MfaFragments}
EmailPrivacyConfigs == {Py("EmailPrivacyConfig", f) : f \in EpcFragments}

\* values that are not None and of neither config class
ForeignValues ==
    {Py("dict", JEmptyDict), Py("int", JInt0), Py("bool", JFalse),
     Py("str", JEmptyStr), Py("dict", JMfaNested)}

MfaArgs == {None} \cup MultiFactorConfigs \cup ForeignValues
              \cup {Py("EmailPrivacyConfig", JEpcFlat)}
EpcArgs == {None} \cup EmailPrivacyConfigs \cup ForeignValues
              \cup {Py("MultiFactorConfig", JMfaNested)}

\* isinstance(v, cls)
IsInstance(v, cls) == v.cls = cls

\* multi_factor_config.build_server_request() / email_privacy_config...
build_server_request(v) == v.val

\* ----------------------------------------------------------- ProjectConfig
ValueError == "ValueError"
FirebaseError == "FirebaseError"

Returned(data) == [kind |-> "return", exc |-> "", code |-> "", data |-> data]
Raised(exc, code) == [kind |-> "raise", exc |-> exc, code |-> code, data |-> JNull]
NoOutcome == [kind |-> "none", exc |-> "", code |-> "", data |-> JNull]

\* ProjectConfig.__init__ testing `if not data` in place of the type
ProjectConfigTruthTest(data) ==
    IF ~Truthy(data) THEN Raised(ValueError, "") ELSE Returned(data)

\* ProjectConfig.__init__(data)
ProjectConfig(data) ==
    IF ~IsDict(data) THEN Raised(ValueError, "") ELSE Returned(data)

MultiFactorServerConfig(data) == Py("MultiFactorServerConfig", data)
EmailPrivacyServerConfig(data) == Py("EmailPrivacyServerConfig", data)

\* multi_factor_config testing only that the key is there
multi_factor_config_KeyOnly(_data) ==
    IF HasKey(_data, "mfa")
    THEN MultiFactorServerConfig(DictGet(_data, "mfa")) ELSE None

\* ProjectConfig.multi_factor_config
multi_factor_config(_data) ==
    LET data == DictGet(_data, "mfa")
    IN IF Truthy(data) THEN MultiFactorServerConfig(data) ELSE None

\* ProjectConfig.email_privacy_config
email_privacy_config(_data) ==
    LET data == DictGet(_data, "emailPrivacyConfig")
    IN IF Truthy(data) THEN EmailPrivacyServerConfig(data) ELSE None

\* ------------------------------------------- _ProjectConfigManagementService
PROJECT_CONFIG_MGT_URL == "https://identitytoolkit.googleapis.com/v2/projects"
ProjectId == "demo-project"

\* _ProjectConfigManagementService.__init__: the fields of the service
NewService ==
    [app |-> ProjectId,
     client |-> PROJECT_CONFIG_MGT_URL \o "/" \o ProjectId \o "/config"]

\* Python truth value of an argument
PyTruthy(v) ==
    \/ v.cls \in {"MultiFactorConfig", "EmailPrivacyConfig"}
    \/ (v.cls # "NoneType" /\ Truthy(v.val))

\* `if multi_factor_config:` in place of `is not None`
AddMfaIfTruthy(payload, mfa) ==
    IF PyTruthy(mfa)
    THEN IF ~IsInstance(mfa, "MultiFactorConfig")
         THEN [err |-> TRUE, payload |-> payload]
         ELSE [err |-> FALSE,
               payload |-> DictSet(payload, "mfa", build_server_request(mfa))]
    ELSE [err |-> FALSE, payload |-> payload]

\* lines 134-137: the multi_factor_config argument
AddMfa(payload, mfa) ==
    IF mfa # None
    THEN IF ~IsInstance(mfa, "MultiFactorConfig")
         THEN [err |-> TRUE, payload |-> payload]
         ELSE [err |-> FALSE,
               payload |-> DictSet(payload, "mfa", build_server_request(mfa))]
    ELSE [err |-> FALSE, payload |-> payload]

\* the email-privacy fragment stored under the argument's name
AddEpcArgName(payload, epc) ==
    IF epc # None
    THEN IF ~IsInstance(epc, "EmailPrivacyConfig")
         THEN [err |-> TRUE, payload |-> payload]
         ELSE [err |-> FALSE,
               payload |-> DictSet(payload, "email_privacy_config",
                                   build_server_request(epc))]
    ELSE [err |-> FALSE, payload |-> payload]

\* lines 139-142: the email_privacy_config argument
AddEpc(payload, epc) ==
    IF epc # None
    THEN IF ~IsInstance(epc, "EmailPrivacyConfig")
         THEN [err |-> TRUE, payload |-> payload]
         ELSE [err |-> FALSE,
               payload |-> DictSet(payload, "emailPrivacyConfig",
                                   build_server_request(epc))]
    ELSE [err |-> FALSE, payload |-> payload]

\* the emptiness test left out
NotPayloadNever(payload) == FALSE

\* line 144: `if not payload`
NotPayload(payload) == ~Truthy(payload)

\* _auth_utils.build_update_mask(payload): the top-level keys, in order
build_update_mask(payload) == DictKeys(payload)

\* line 149: 'updateMask={0}'.format(update_mask)
UpdateParams(update_mask) == "updateMask=" \o update_mask

\* the two arguments handled email-privacy first
BuildUpdateEpcFirst(start, mfa, epc) ==
    LET e == AddEpc(start, epc)
        m == AddMfa(e.payload, mfa)
    IN IF e.err THEN [raised |-> TRUE, payload |-> e.payload, params |-> ""]
       ELSE IF m.err THEN [raised |-> TRUE, payload |-> m.payload, params |-> ""]
       ELSE IF NotPayload(m.payload)
            THEN [raised |-> TRUE, payload |-> m.payload, params |-> ""]
       ELSE [raised |-> FALSE, payload |-> m.payload,
             params |-> UpdateParams(Join(build_update_mask(m.payload)))]

\* lines 133-149: everything update_project_config does before the request.
\* raised is TRUE when a ValueError leaves the function.
BuildUpdate(start, mfa, epc) ==
    LET m == AddMfa(start, mfa)
        e == AddEpc(m.payload, epc)
    IN IF m.err THEN [raised |-> TRUE, payload |-> m.payload, params |-> ""]
       ELSE IF e.err THEN [raised |-> TRUE, payload |-> e.payload, params |-> ""]
       ELSE IF NotPayload(e.payload)
            THEN [raised |-> TRUE, payload |-> e.payload, params |-> ""]
       ELSE [raised |-> FALSE, payload |-> e.payload,
             params |-> UpdateParams(Join(build_update_mask(e.payload)))]

\* _auth_utils.handle_auth_backend_error(error): the backend error kind of a
\* failed exchange, by HTTP status (0: no response, a network-level failure)
handle_auth_backend_error(status) ==
    CASE status = 400 -> "INVALID_ARGUMENT"
      [] status = 403 -> "PERMISSION_DENIED"
      [] status = 404 -> "NOT_FOUND"
      [] status = 500 -> "INTERNAL"
      [] OTHER        -> "UNAVAILABLE"

\* ------------------------------------------------------------------ state
Threads == {"t1", "t2"}
FailStatuses == {0, 404, 500}

\* raw values ProjectConfig is constructed from: dicts with each of the two
\* sections missing, empty, falsy or filled, and values that are no dict
JMissing == [t |-> "missing", s |-> "", items |-> << >>]
Section(frag) == {JMissing, JNull, JEmptyDict, JEmptyList, JInt0, JFalse,
                  JEmptyStr, frag}
Entry(k, v) == IF v = JMissing THEN << >> ELSE << <<k, v>> >>
RawDicts == {JDict(Entry("mfa", m) \o Entry("emailPrivacyConfig", e)) :
                m \in Section(JMfaNested), e \in Section(JEpcFlat)}
RawOthers == {JNull, JEmptyList, JInt7, JEmptyStr, JTrue}
RawValues == RawDicts \cup RawOthers
NonObjectBodies == {JEmptyList, JInt7}

NoRequest == [method |-> "", url |-> "", json |-> JNull, params |-> ""]
NoResponse == [status |-> -1, body |-> JNull]
NoArgs == [mfa |-> None, epc |-> None]
Unread == Py("unread", JNull)

VARIABLES
    service,    \* the service object's fields (app, client)
    server,     \* the project config held by the backend
    ncalls,     \* calls started so far
    pc,         \* per thread: "idle", "waiting", "responded", "done"
    op,         \* per thread: "get" or "update"
    args,       \* per thread: the arguments of the running call
    payload,    \* per thread: the local `payload`
    req,        \* per thread: the request handed to client.body
    nreq,       \* per thread: client.body invocations of the running call
    resp,       \* per thread: the result of the exchange
    applied,    \* per thread: the backend applied this call's payload
    out,        \* per thread: what the call returned or raised
    cfgRaw,     \* the raw value last handed to ProjectConfig(...) directly
    cfg,        \* the outcome of that construction
    mfaView,    \* last result of cfg.multi_factor_config
    epcView,    \* last result of cfg.email_privacy_config
    reads       \* accessor reads on cfg so far

svcVars == <<service, server, ncalls, pc, op, args, payload, req, nreq, resp,
             applied, out>>
cfgVars == <<cfgRaw, cfg, mfaView, epcView, reads>>
vars == <<service, server, ncalls, pc, op, args, payload, req, nreq, resp,
          applied, out, cfgRaw, cfg, mfaView, epcView, reads>>

Init ==
    /\ service = NewService
    /\ server = JEmptyDict
    /\ ncalls = 0
    /\ pc = [c \in Threads |-> "idle"]
    /\ op = [c \in Threads |-> "get"]
    /\ args = [c \in Threads |-> NoArgs]
    /\ payload = [c \in Threads |-> JEmptyDict]
    /\ req = [c \in Threads |-> NoRequest]
    /\ nreq = [c \in Threads |-> 0]
    /\ resp = [c \in Threads |-> NoResponse]
    /\ applied = [c \in Threads |-> FALSE]
    /\ out = [c \in Threads |-> NoOutcome]
    /\ cfgRaw = JNull
    /\ cfg = NoOutcome
    /\ mfaView = Unread
    /\ epcView = Unread
    /\ reads = 0

\* payload kept where calls share it (a mutable default, a field)
NewPayloadShared(c) == payload[CHOOSE d \in Threads : d # c]

\* line 133: payload = {}
NewPayload(c) == JEmptyDict

CanStart(c) == pc[c] \in {"idle", "done"} /\ ncalls < MaxCalls

\* get_project_config, up to the GET handed to the client (line 122)
GetBegin(c) ==
    /\ CanStart(c)
    /\ ncalls' = ncalls + 1
    /\ op' = [op EXCEPT ![c] = "get"]
    /\ args' = [args EXCEPT ![c] = NoArgs]
    /\ payload' = [payload EXCEPT ![c] = JEmptyDict]
    /\ req' = [req EXCEPT ![c] = [method |-> "get", url |-> service.client,
                                  json |-> JNull, params |-> ""]]
    /\ nreq' = [nreq EXCEPT ![c] = 1]
    /\ resp' = [resp EXCEPT ![c] = NoResponse]
    /\ applied' = [applied EXCEPT ![c] = FALSE]
    /\ out' = [out EXCEPT ![c] = NoOutcome]
    /\ pc' = [pc EXCEPT ![c] = "waiting"]
    /\ UNCHANGED <<service, server>>
    /\ UNCHANGED cfgVars

\* update_project_config, up to the PATCH handed to the client (lines
\* 133-152), or to the ValueError that ends it before any request
UpdateBegin(c, mfa, epc) ==
    LET b == BuildUpdate(NewPayload(c), mfa, epc)
    IN /\ CanStart(c)
       /\ ncalls' = ncalls + 1
       /\ op' = [op EXCEPT ![c] = "update"]
       /\ args' = [args EXCEPT ![c] = [mfa |-> mfa, epc |-> epc]]
       /\ payload' = [payload EXCEPT ![c] = b.payload]
       /\ resp' = [resp EXCEPT ![c] = NoResponse]
       /\ applied' = [applied EXCEPT ![c] = FALSE]
       /\ IF b.raised
          THEN /\ req' = [req EXCEPT ![c] = NoRequest]
               /\ nreq' = [nreq EXCEPT ![c] = 0]
               /\ out' = [out EXCEPT ![c] = Raised(ValueError, "")]
               /\ pc' = [pc EXCEPT ![c] = "done"]
          ELSE /\ req' = [req EXCEPT ![c] =
                            [method |-> "patch", url |-> service.client,
                             json |-> b.payload, params |-> b.params]]
               /\ nreq' = [nreq EXCEPT ![c] = 1]
               /\ out' = [out EXCEPT ![c] = NoOutcome]
               /\ pc' = [pc EXCEPT ![c] = "waiting"]
       /\ UNCHANGED <<service, server>>
       /\ UNCHANGED cfgVars

\* the backend applies a PATCH: every key of the body replaces the stored one
RECURSIVE ApplyPatch(_, _)
ApplyPatch(config, items) ==
    IF items = << >> THEN config
    ELSE ApplyPatch(DictSet(config, items[1][1], items[1][2]), Tail(items))

\* the exchange succeeds: the backend serves the request and answers 2xx
ExchangeOk(c) ==
    /\ pc[c] = "waiting"
    /\ LET after == IF req[c].method = "patch"
                    THEN ApplyPatch(server, req[c].json.items) ELSE server
       IN /\ server' = after
          /\ applied' = [applied EXCEPT ![c] = (req[c].method = "patch")]
          /\ \E body \in {after} \cup NonObjectBodies :
                resp' = [resp EXCEPT ![c] = [status |-> 200, body |-> body]]
    /\ pc' = [pc EXCEPT ![c] = "responded"]
    /\ UNCHANGED <<service, ncalls, op, args, payload, req, nreq, out>>
    /\ UNCHANGED cfgVars

\* the exchange fails: no response, or a non-2xx status; nothing is applied
ExchangeFail(c) ==
    /\ pc[c] = "waiting"
    /\ \E st \in FailStatuses :
          resp' = [resp EXCEPT ![c] = [status |-> st, body |-> JNull]]
    /\ pc' = [pc EXCEPT ![c] = "responded"]
    /\ UNCHANGED <<service, server, ncalls, op, args, payload, req, nreq,
                   applied, out>>
    /\ UNCHANGED cfgVars

\* the try/except/else around client.body (lines 121-126 and 150-156)
FinishCall(r) ==
    IF r.status # 200
    THEN Raised(FirebaseError, handle_auth_backend_error(r.status))
    ELSE ProjectConfig(r.body)

\* get_project_config from the return of client.body on
GetEnd(c) ==
    /\ pc[c] = "responded"
    /\ op[c] = "get"
    /\ out' = [out EXCEPT ![c] = FinishCall(resp[c])]
    /\ pc' = [pc EXCEPT ![c] = "done"]
    /\ UNCHANGED <<service, server, ncalls, op, args, payload, req, nreq,
                   resp, applied>>
    /\ UNCHANGED cfgVars

\* update_project_config sending the PATCH again after a failed exchange
UpdateEndRetry(c) ==
    /\ pc[c] = "responded"
    /\ op[c] = "update"
    /\ IF resp[c].status # 200
       THEN /\ nreq' = [nreq EXCEPT ![c] = nreq[c] + 1]
            /\ pc' = [pc EXCEPT ![c] = "waiting"]
            /\ out' = out
       ELSE /\ nreq' = nreq
            /\ pc' = [pc EXCEPT ![c] = "done"]
            /\ out' = [out EXCEPT ![c] = FinishCall(resp[c])]
    /\ UNCHANGED <<service, server, ncalls, op, args, payload, req, resp,
                   applied>>
    /\ UNCHANGED cfgVars

\* update_project_config from the return of client.body on
UpdateEnd(c) ==
    /\ pc[c] = "responded"
    /\ op[c] = "update"
    /\ out' = [out EXCEPT ![c] = FinishCall(resp[c])]
    /\ pc' = [pc EXCEPT ![c] = "done"]
    /\ UNCHANGED <<service, server, ncalls, op, args, payload, req, nreq,
                   resp, applied>>
    /\ UNCHANGED cfgVars

Next ==
    \/ \E c \in Threads : GetBegin(c)
    \/ \E c \in Threads : \E mfa \in MfaArgs : \E epc \in EpcArgs :
          UpdateBegin(c, mfa, epc)
    \/ \E c \in Threads : ExchangeOk(c)
    \/ \E c \in Threads : ExchangeFail(c)
    \/ \E c \in Threads : GetEnd(c)
    \/ \E c \in Threads : UpdateEnd(c)

Spec == Init /\ [][Next]_vars

\* ------------------------------------------- ProjectConfig used directly
\* ProjectConfig(raw)
Construct(raw) ==
    /\ cfgRaw' = raw
    /\ cfg' = ProjectConfig(raw)
    /\ mfaView' = Unread
    /\ epcView' = Unread
    /\ reads' = 0
    /\ UNCHANGED svcVars

\* cfg.multi_factor_config
ReadMfa ==
    /\ cfg.kind = "return"
    /\ reads < MaxReads
    /\ mfaView' = multi_factor_config(cfg.data)
    /\ reads' = reads + 1
    /\ UNCHANGED <<cfgRaw, cfg, epcView>>
    /\ UNCHANGED svcVars

\* cfg.email_privacy_config
ReadEpc ==
    /\ cfg.kind = "return"
    /\ reads < MaxReads
    /\ epcView' = email_privacy_config(cfg.data)
    /\ reads' = reads + 1
    /\ UNCHANGED <<cfgRaw, cfg, mfaView>>
    /\ UNCHANGED svcVars

NextCfg ==
    \/ \E raw \in RawValues : Construct(raw)
    \/ ReadMfa
    \/ ReadEpc

SpecCfg == Init /\ [][NextCfg]_vars

\* ----------------------------------------------------------------- claims
BaseUrl == "https://identitytoolkit.googleapis.com/v2/projects/demo-project/config"
Started(c) == pc[c] # "idle"
Given(v) == v.cls # "NoneType"
ValidArgs(a) ==
    /\ a.mfa = None \/ a.mfa.cls = "MultiFactorConfig"
    /\ a.epc = None \/ a.epc.cls = "EmailPrivacyConfig"
    /\ Given(a.mfa) \/ Given(a.epc)

\* C1: update_project_config with both arguments None raises ValueError, and
\* no request has been handed to the client by that call.
C1_NoArgumentsRaises ==
    \A c \in Threads :
        (Started(c) /\ op[c] = "update" /\ ~Given(args[c].mfa) /\ ~Given(args[c].epc))
        => /\ pc[c] = "done"
           /\ out[c] = Raised(ValueError, "")
           /\ nreq[c] = 0
           /\ req[c] = NoRequest
           /\ ~applied[c]

C1_Witness ==
    \E c \in Threads :
        /\ op[c] = "update" /\ pc[c] = "done"
        /\ args[c] = NoArgs
        /\ out[c].exc = ValueError

\* C2: update_project_config with a non-None argument that is not an
\* instance of its class raises ValueError and sends nothing, whatever the
\* other argument is, also when the wrong value is falsy.
WrongType(v, cls) == Given(v) /\ v.cls # cls
C2_WrongTypeRaises ==
    \A c \in Threads :
        (/\ Started(c) /\ op[c] = "update"
         /\ \/ WrongType(args[c].mfa, "MultiFactorConfig")
            \/ WrongType(args[c].epc, "EmailPrivacyConfig"))
        => /\ pc[c] = "done"
           /\ out[c] = Raised(ValueError, "")
           /\ nreq[c] = 0
           /\ req[c] = NoRequest
           /\ ~applied[c]

C2_Witness ==
    \E c \in Threads :
        /\ op[c] = "update" /\ pc[c] = "done"
        /\ args[c].mfa = Py("dict", JEmptyDict)
        /\ args[c].epc \in EmailPrivacyConfigs
        /\ out[c].exc = ValueError

ExpectedCode(st) ==
    CASE st = 404 -> "NOT_FOUND" [] st = 500 -> "INTERNAL" [] OTHER -> "UNAVAILABLE"
C5_FailedExchangeIsBackendError ==
    \A c \in Threads :
        (pc[c] = "done" /\ nreq[c] = 1
         /\ (resp[c].status # 200 \/ resp[c].body.t # "dict"))
        => /\ out[c].kind = "raise"
           /\ out[c].exc = FirebaseError
           /\ resp[c].status # 200 => out[c].code = ExpectedCode(resp[c].status)

\* C6: an update either returns a snapshot with the backend having applied
\* the payload, or raises with the backend unchanged by it.
C6_UpdateAtomic ==
    \A c \in Threads :
        (pc[c] = "done" /\ op[c] = "update")
        => \/ out[c].kind = "return" /\ applied[c]
           \/ out[c].kind = "raise" /\ ~applied[c]

\* C7: each accessor gives None when its key is missing or its value is
\* falsy, and the typed view of the value otherwise, independently of the
\* other; reading changes neither the wrapped data nor an earlier result.
FalsyValues == {JNull, JEmptyDict, JEmptyList, JInt0, JFalse, JEmptyStr}
ExpectedView(data, key, cls) ==
    IF \A i \in 1..Len(data.items) : data.items[i][1] # key
    THEN None
    ELSE LET v == data.items[CHOOSE i \in 1..Len(data.items) :
                                data.items[i][1] = key][2]
         IN IF v \in FalsyValues THEN None ELSE [cls |-> cls, val |-> v]
C7_ViewsRight ==
    cfg.kind = "return"
    => /\ cfg.data = cfgRaw
       /\ mfaView # Unread
            => mfaView = ExpectedView(cfgRaw, "mfa", "MultiFactorServerConfig")
       /\ epcView # Unread
            => epcView = ExpectedView(cfgRaw, "emailPrivacyConfig",
                                      "EmailPrivacyServerConfig")
C7_ReadKeeps ==
    reads' = reads + 1
    => /\ cfg' = cfg
       /\ cfgRaw' = cfgRaw
       /\ mfaView # Unread => mfaView' = mfaView
       /\ epcView # Unread => epcView' = epcView
C7_Accessors == [](C7_ViewsRight) /\ [][C7_ReadKeeps]_vars

C7_Witness ==
    /\ cfg.kind = "return"
    /\ reads = 2
    /\ cfgRaw = JDict(<< <<"mfa", JEmptyDict>>, <<"emailPrivacyConfig", JEpcFlat>> >>)
    /\ mfaView = None
    /\ epcView = Py("EmailPrivacyServerConfig", JEpcFlat)

\* C8: ProjectConfig(raw) raises ValueError and yields no snapshot when raw
\* is no mapping, and succeeds for every mapping, the empty one included.
C8_ConstructorChecksMapping ==
    cfg.kind # "none"
    => IF cfgRaw.t = "dict"
       THEN cfg.kind = "return" /\ cfg.data = cfgRaw
       ELSE cfg.kind = "raise" /\ cfg.exc = ValueError /\ cfg.data = JNull

C8_Witness ==
    /\ cfg.kind = "return"
    /\ cfgRaw = JEmptyDict

\* C9: a get sends exactly one GET to the base URL, an update with valid
\* arguments exactly one PATCH to it and any other update none; a failed
\* exchange is not sent again and ends in the mapped backend error, raised.
C9_RequestCount ==
    \A c \in Threads :
        Started(c)
        => /\ nreq[c] <= 1
           /\ op[c] = "get"
                => nreq[c] = 1 /\ req[c].method = "get" /\ req[c].url = BaseUrl
           /\ (op[c] = "update" /\ ValidArgs(args[c]))
                => nreq[c] = 1 /\ req[c].method = "patch" /\ req[c].url = BaseUrl
           /\ (op[c] = "update" /\ ~ValidArgs(args[c])) => nreq[c] = 0
           /\ (resp[c].status \notin {-1, 200})
                => /\ pc[c] \in {"responded", "done"}
                   /\ pc[c] = "done"
                        => out[c] = Raised(FirebaseError,
                                           ExpectedCode(resp[c].status))

C9_Witness ==
    \E c \in Threads :
        /\ op[c] = "update" /\ pc[c] = "done"
        /\ resp[c].status = 500
        /\ nreq[c] = 1
        /\ out[c].code = "INTERNAL"

\* C10: with calls interleaved on one service, what a call sends is fixed by
\* its own arguments and what it yields by its own response, and the
\* service's fields stay as constructed.
OwnPayload(a) ==
    JDict((IF Given(a.mfa) THEN << <<"mfa", a.mfa.val>> >> ELSE << >>)
          \o (IF Given(a.epc) THEN << <<"emailPrivacyConfig", a.epc.val>> >>
              ELSE << >>))
C10_CallsIndependent ==
    /\ service = NewService
    /\ \A c \in Threads :
          /\ req[c].method = "patch" => req[c].json = OwnPayload(args[c])
          /\ req[c].method = "get" => req[c].json = JNull /\ req[c].params = ""
          /\ (pc[c] = "done" /\ nreq[c] = 1)
                => IF resp[c].status = 200 /\ resp[c].body.t = "dict"
                   THEN out[c] = Returned(resp[c].body)
                   ELSE out[c].kind = "raise"

C10_Witness ==
    /\ req["t1"].method = "patch" /\ req["t2"].method = "patch"
    /\ pc["t1"] = "done" /\ pc["t2"] = "done"
    /\ args["t1"].epc = None /\ args["t2"].mfa = None
    /\ out["t1"].kind = "return" /\ out["t2"].kind = "raise"

====
